---------------------------- MODULE Spec2Model ----------------------------
(***************************************************************************)
(* A model of the TSP core of the repository: tsp/distances.py             *)
(* (route_length), tsp/heuristics.py (nearest_neighbor, two_opt),          *)
(* tsp/solver.py (solve_tsp), tsp/utils.py (validate_route_indices) and    *)
(* gui/worker.py (SolverWorker).                                           *)
(*                                                                         *)
(* Distances are non-negative integers; a Python list or numpy array of    *)
(* length n is a sequence, so Python position p is position p + 1 here.    *)
(* Node indices keep their Python values 0..n-1.                           *)
(***************************************************************************)
EXTENDS Integers, Sequences, FiniteSets

\* ------------------------------------------------------------------ bounds
\* Largest number of points of an input.
MaxN == 4
\* Largest size of an input matrix: its number of points plus the total of
\* the distances above its diagonal.
MaxSize == 7
\* Largest explicit max_iters argument.
MaxIters == 2
\* Largest reading of the clock, in ticks since the reference instant.
MaxClock == 1

\* ------------------------------------------------------- program constants
\* solver.py: params.get('start_idx', 3753)
DefaultStart == 3753
\* solver.py: params.get('max_iters', 1000)
DefaultMaxIters == 1000
\* heuristics.py: improve_threshold = 1e-9; on integer distances
\* delta < -1e-9 is delta < 0.
ImproveThreshold == 0

\* Python's None where the value is otherwise a number (an optional argument,
\* a variable not yet assigned): a number outside every range of the model.
None == -1000
\* progress_callback=None
NoSink == "None"
\* best_route = None
NoRoute == <<>>
\* No value returned yet.
NoResult == [returned |-> FALSE]
\* No exception has left the call.
NoError == "-"
\* validate_route_indices has not returned or raised.
NoOutcome == "-"
\* items=None, distance_matrix=None: no array, where the value is otherwise
\* the shape of an array.
NoArray == <<None>>
\* The method of a call that is not a call of solve_tsp.
NoMethod == "-"
\* np.inf / float('inf'): above every distance and every length of the model.
Inf == 2 * MaxSize + 1

VARIABLES
    pc,             \* position of the running call
    caller,         \* "direct", or "solve" when solve_tsp made the call
    error,          \* the exception that left the entry point, or None
    D,              \* the distance matrix, D[a][b] for a, b in 0..n-1
    \* arguments of solve_tsp; items and distance_matrix are held as their
    \* array shapes
    method, start_param, max_iters_param, time_limit, sink,
    items_shape, dm_shape,
    \* nearest_neighbor: its argument start_idx as passed, and its locals
    nn_start, route, visited, current,
    \* two_opt
    to_route, max_iters, tl, best, best_len, improved, iters, i,
    ret_route, ret_len,
    \* solve_tsp
    solve_n, start_idx, best_route, best_open_len, best_closed_len, result,
    \* history: the records handed to the sink, the open route after each
    \* accepted move, the accepted moves of the current outer iteration, and
    \* whether a pair was evaluated after one of them
    emitted, applied, iter_moves, eval_after_accept,
    \* history of the time checks of two_opt: the first reading of the clock
    \* (elapsed ticks), the number of readings, and whether the latest
    \* reading exceeded the limit
    first_check, time_checks, expired,
    \* validate_route_indices: its arguments and its outcome
    vr_route, vr_n, vr_out,
    \* SolverWorker: its flag _stop_requested, and the finished and error
    \* signals it has emitted, each with the number of progress signals
    \* emitted before it
    stop_requested, done_signals

vars == <<pc, caller, error, D, method, start_param, max_iters_param,
          time_limit, sink, items_shape, dm_shape, solve_n,
          nn_start, route, visited, current, to_route,
          max_iters, tl, best, best_len, improved, iters, i, ret_route,
          ret_len, start_idx, best_route, best_open_len, best_closed_len,
          result,
          emitted, applied, iter_moves, eval_after_accept,
          first_check, time_checks, expired,
          vr_route, vr_n, vr_out, stop_requested, done_signals>>

nnArgs == <<nn_start>>
nnVars == <<route, visited, current>>
toArgs == <<to_route, max_iters, tl>>
toVars == <<best, best_len, improved, iters, i>>
toRet == <<ret_route, ret_len>>
solveArgs == <<method, start_param, max_iters_param, time_limit, sink,
               items_shape, dm_shape>>
solveVars == <<start_idx, best_route, best_open_len, best_closed_len, result>>
histVars == <<emitted, applied, iter_moves, eval_after_accept>>
clockVars == <<first_check, time_checks, expired>>
validateVars == <<vr_route, vr_n, vr_out>>
workerVars == <<stop_requested, done_signals>>

\* ------------------------------------------------------------------ inputs
Nodes(n) == 0 .. (n - 1)

\* The sequences of k naturals whose sum is at most w.
RECURSIVE WeightSeqs(_, _)
WeightSeqs(k, w) ==
    IF k = 0 THEN {<<>>}
    ELSE UNION {{<<v>> \o s : s \in WeightSeqs(k - 1, w - v)} : v \in 0 .. w}

\* Position of the pair a < b in the row-major list of the pairs above the
\* diagonal of an n x n matrix.
PairIndex(n, a, b) == a * n - (a * (a + 1)) \div 2 + (b - a)

\* The symmetric, zero-diagonal matrix whose entries above the diagonal are s.
MatrixOf(n, s) ==
    [a \in Nodes(n) |-> [b \in Nodes(n) |->
        IF a = b THEN 0
        ELSE IF a < b THEN s[PairIndex(n, a, b)] ELSE s[PairIndex(n, b, a)]]]

\* Every symmetric, zero-diagonal, non-negative integer n x n matrix of size
\* at most MaxSize.
Matrices(n) ==
    {MatrixOf(n, s) : s \in WeightSeqs((n * (n - 1)) \div 2, MaxSize - n)}

AllMatrices == UNION {Matrices(n) : n \in 0 .. MaxN}

\* D.shape[0]
Size(M) == Cardinality(DOMAIN M)

\* The routes that are permutations of 0..n-1.
Permutations(n) ==
    {r \in [1 .. n -> Nodes(n)] : \A p, q \in 1 .. n : r[p] = r[q] => p = q}

IsPermutation(r, n) ==
    /\ Len(r) = n
    /\ \A k \in Nodes(n) : \E p \in 1 .. n : r[p] = k

\* ----------------------------------------------------------- distances.py
RECURSIVE PathSum(_, _, _)
PathSum(r, M, p) ==
    IF p >= Len(r) THEN 0 ELSE M[r[p]][r[p + 1]] + PathSum(r, M, p + 1)

\* route_length(route, D, closed)
route_length(r, M, closed) ==
    IF Len(r) < 2 THEN 0
    ELSE PathSum(r, M, 1) + (IF closed /\ Len(r) > 1 THEN M[r[Len(r)]][r[1]] ELSE 0)

\* ------------------------------------------------- heuristics.py: nearest_neighbor
\* A variant that leaves the visited nodes in the row.
MaskedRowUnmasked(row, vis) == row

\* d_row = D[current].copy(); d_row[visited] = np.inf
MaskedRow(row, vis) == [k \in DOMAIN row |-> IF k \in vis THEN Inf ELSE row[k]]

\* A variant that takes the last occurrence of the minimum.
ArgMinLast(row) ==
    {k \in DOMAIN row :
        \A m \in DOMAIN row : row[k] < row[m] \/ (row[k] = row[m] /\ k >= m)}

\* np.argmin(d_row): the index of the first occurrence of the minimum.
ArgMin(row) ==
    {k \in DOMAIN row :
        \A m \in DOMAIN row : row[k] < row[m] \/ (row[k] = row[m] /\ k <= m)}

\* if start_idx < 0 or start_idx >= n: start_idx = 0
ClampStart(s, n) == IF s < 0 \/ s >= n THEN 0 ELSE s

\* Lines 23-34: the empty matrix returns at once; otherwise the start is
\* clamped and becomes the first node of the route.
NNEnter ==
    /\ pc = "nn_call"
    /\ IF Size(D) = 0
       THEN /\ route' = <<>>
            /\ pc' = "nn_ret"
            /\ UNCHANGED <<visited, current>>
       ELSE LET s == ClampStart(nn_start, Size(D)) IN
            /\ route' = <<s>>
            /\ visited' = {s}
            /\ current' = s
            /\ pc' = IF Size(D) = 1 THEN "nn_ret" ELSE "nn_loop"
    /\ UNCHANGED <<caller, workerVars, validateVars, solve_n, clockVars, error, D, solveArgs, nnArgs, toArgs, toVars, toRet,
                   solveVars, histVars>>

\* Lines 35-41: one iteration of for _ in range(n - 1).
NNStep ==
    /\ pc = "nn_loop"
    /\ \E next_idx \in ArgMin(MaskedRow(D[current], visited)) :
        /\ route' = Append(route, next_idx)
        /\ visited' = visited \cup {next_idx}
        /\ current' = next_idx
    /\ pc' = IF Len(route') - 1 = Size(D) - 1 THEN "nn_ret" ELSE "nn_loop"
    /\ UNCHANGED <<caller, workerVars, validateVars, solve_n, clockVars, error, D, solveArgs, nnArgs, toArgs, toVars,
                   toRet, solveVars, histVars>>

\* ----------------------------------------------------- heuristics.py: two_opt
\* Element p (Python position) of a list or array.
At(s, p) == s[p + 1]

\* s[-1]
Last(s) == s[Len(s)]

\* best[:-1]
OpenOf(b) == SubSeq(b, 1, Len(b) - 1)

\* Lines 70-72: tour = list(route); the first node is appended when the
\* route does not already end with it.
ClosedTour(r) == IF r[1] # Last(r) THEN Append(r, r[1]) ELSE r

\* A variant that leaves the second new edge (b, d) out of the sum.
DeltaWithoutSecondEdge(b, pi, pj) ==
    LET a == At(b, pi - 1)
        bb == At(b, pi)
        c == At(b, pj)
        d == At(b, (pj + 1) % Len(b))
    IN D[a][c] - (D[a][bb] + D[c][d])

\* Lines 90-92: the change of the closed length when best[i..j] is reversed.
Delta(b, pi, pj) ==
    LET a == At(b, pi - 1)
        bb == At(b, pi)
        c == At(b, pj)
        d == At(b, (pj + 1) % Len(b))
    IN (D[a][c] + D[bb][d]) - (D[a][bb] + D[c][d])

\* A variant that accepts the pairs that lengthen the tour.
AcceptsWorsening(delta) == delta > ImproveThreshold

\* Line 93: if delta < -improve_threshold
Accepts(delta) == delta < -ImproveThreshold

\* A variant that reads the reversed slice one position too early,
\* best[i:j+1] = best[i-1:j][::-1].
ReverseSegmentShifted(b, pi, pj) ==
    [p \in 1 .. Len(b) |->
        IF pi + 1 <= p /\ p <= pj + 1 THEN b[pi + (pj + 1) - p] ELSE b[p]]

\* A variant that reverses from one position earlier,
\* best[i-1:j+1] = best[i-1:j+1][::-1].
ReverseSegmentFromPrevious(b, pi, pj) ==
    [p \in 1 .. Len(b) |->
        IF pi <= p /\ p <= pj + 1 THEN b[pi + (pj + 1) - p] ELSE b[p]]

\* Line 95: best[i:j+1] = best[i:j+1][::-1]
ReverseSegment(b, pi, pj) ==
    [p \in 1 .. Len(b) |->
        IF pi + 1 <= p /\ p <= pj + 1 THEN b[(pi + 1) + (pj + 1) - p] ELSE b[p]]

\* A variant that stops one value of i early, range(1, n_closed - 3).
IRangeShort(b) == 1 .. (Len(b) - 4)

\* Line 85: range(1, n_closed - 2), the values of i.
IRange(b) == 1 .. (Len(b) - 3)

\* Lines 89-109: the values of j the inner loop evaluates for this i. The loop
\* runs over range(i + 1, n_closed - 1) and stops at the first accepted pair;
\* the test "if improved: break" of line 108 sits inside it, so when an
\* earlier i of the same outer iteration has set improved, a rejected first
\* pair ends the loop.
JRange(b, pi, imp) ==
    IF imp THEN {pi + 1} \cap ((pi + 1) .. (Len(b) - 2))
    ELSE (pi + 1) .. (Len(b) - 2)

\* The j of the pair the inner loop accepts for this i, or None.
FirstImproving(b, pi, imp) ==
    LET good == {pj \in JRange(b, pi, imp) : Accepts(Delta(b, pi, pj))}
    IN IF good = {} THEN None
       ELSE CHOOSE pj \in good : \A q \in good : pj <= q

\* Lines 88 and 111-112: return best[:-1].tolist(),
\* float(best_len - D[best[-1], best[0]])
ReturnedLen(b, blen) == blen - D[Last(b)][b[1]]

TwoOptReturn ==
    /\ ret_route' = OpenOf(best)
    /\ ret_len' = ReturnedLen(best, best_len)
    /\ pc' = "to_ret"

\* A variant that reports the route as it was before the move.
MoveRecordStale(b, blen) ==
    [route |-> OpenOf(best),
     length_open |-> blen - D[Last(b)][b[1]],
     length_closed |-> blen]

\* Lines 100-104: the record handed to progress_callback after a move.
MoveRecord(b, blen) ==
    [route |-> OpenOf(b),
     length_open |-> blen - D[Last(b)][b[1]],
     length_closed |-> blen]

\* Lines 64-80: a route shorter than 2 is returned as it is with length 0.0;
\* otherwise the closed working array and its length are set up.
TwoOptEnter ==
    /\ pc = "to_call"
    /\ IF Len(to_route) < 2
       THEN /\ ret_route' = to_route
            /\ ret_len' = 0
            /\ pc' = "to_ret"
            /\ UNCHANGED toVars
       ELSE LET tour == ClosedTour(to_route) IN
            /\ best' = tour
            /\ best_len' = route_length(tour, D, FALSE) + D[Last(tour)][tour[1]]
            /\ improved' = TRUE
            /\ iters' = 0
            /\ pc' = "to_while"
            /\ UNCHANGED <<i, toRet>>
    /\ UNCHANGED <<caller, workerVars, validateVars, solve_n, clockVars, error, D, solveArgs, nnArgs, nnVars, toArgs,
                   solveVars, histVars>>

\* Lines 82-85 and 111-112: the test of the while loop. A new outer iteration
\* clears improved and starts the scan at i = 1; the exit returns.
TwoOptWhile ==
    /\ pc = "to_while"
    /\ IF improved /\ iters < max_iters
       THEN /\ improved' = FALSE
            /\ iters' = iters + 1
            /\ iter_moves' = 0
            /\ eval_after_accept' = FALSE
            /\ IF IRange(best) # {}
               THEN i' = 1 /\ pc' = "to_for"
               ELSE UNCHANGED <<i, pc>>
            /\ UNCHANGED <<best, best_len, toRet, emitted, applied>>
       ELSE /\ TwoOptReturn
            /\ UNCHANGED <<toVars, histVars>>
    /\ UNCHANGED <<caller, workerVars, validateVars, solve_n, clockVars, error, D, solveArgs, nnArgs, nnVars, toArgs,
                   solveVars>>

\* Lines 89-109 for one i: the inner loop, the accepted move if there is one,
\* its progress record, and the step to the next i or back to the while test.
\* The callback is called inside try/except Exception: pass, so whether it
\* returns or raises, the search goes on from the same state.
ScanRow ==
    LET pj == FirstImproving(best, i, improved)
        nb == IF pj = None THEN best ELSE ReverseSegment(best, i, pj)
        nlen == IF pj = None THEN best_len ELSE best_len + Delta(best, i, pj)
    IN /\ best' = nb
       /\ best_len' = nlen
       /\ improved' = (improved \/ pj # None)
       /\ eval_after_accept' = (eval_after_accept \/ iter_moves > 0)
       /\ IF pj = None
          THEN UNCHANGED <<applied, iter_moves, emitted>>
          ELSE /\ applied' = Append(applied, OpenOf(nb))
               /\ iter_moves' = iter_moves + 1
               /\ emitted' = IF sink = NoSink THEN emitted
                             ELSE Append(emitted, MoveRecord(nb, nlen))
       /\ IF i + 1 \in IRange(best)
          THEN i' = i + 1 /\ pc' = "to_for"
          ELSE i' = i /\ pc' = "to_while"
       /\ UNCHANGED <<iters, toRet>>

\* A variant of the time test that never finds the limit exceeded.
ExpiredNever(elapsed, limit) == FALSE

\* Line 87: (time.time() - start_time) > time_limit
Expired(elapsed, limit) == elapsed > limit

\* Lines 85-109: one value of i. When there is a time limit the clock is read
\* once, before the inner loop, and expiry returns at once; without a limit
\* the clock is not read (time_limit is not None and ...).
TwoOptFor ==
    /\ pc = "to_for"
    /\ IF tl = None
       THEN ScanRow /\ UNCHANGED clockVars
       ELSE \E elapsed \in 0 .. MaxClock :
            /\ first_check' = IF first_check = None THEN elapsed ELSE first_check
            /\ time_checks' = time_checks + 1
            /\ expired' = Expired(elapsed, tl)
            /\ IF Expired(elapsed, tl)
               THEN TwoOptReturn /\ UNCHANGED <<toVars, histVars>>
               ELSE ScanRow
    /\ UNCHANGED <<caller, workerVars, validateVars, solve_n, error, D, solveArgs, nnArgs, nnVars, toArgs,
                   solveVars>>

\* ------------------------------------------------------ solver.py: solve_tsp
\* Lines 58-62: the start index of params, 3753 when absent, 0 when it is
\* outside [0, n).
ResolveStart(param, n) ==
    LET default_start == IF param = None THEN DefaultStart ELSE param
    IN IF default_start < 0 \/ default_start >= n THEN 0 ELSE default_start

\* Lines 138-146: the distances between consecutive nodes of the route.
EdgeLengths(r) ==
    IF Len(r) >= 2 THEN [p \in 1 .. (Len(r) - 1) |-> D[r[p]][r[p + 1]]] ELSE <<>>

\* Lines 138-157: the returned dictionary.
SolveResult(r, open_len, closed_len) ==
    [returned |-> TRUE,
     route |-> r,
     lengths |-> EdgeLengths(r),
     meta |-> [method |-> method, n |-> solve_n,
               best_open_length |-> open_len,
               best_closed_length |-> closed_len,
               start_idx |-> start_idx]]

\* Lines 88-91 and 111-114: the record of the constructed route.
InitialRecord(r, open_len, closed_len) ==
    [route |-> r, length_open |-> open_len, length_closed |-> closed_len]

\* A variant that takes any two-dimensional matrix for a square one.
ShapeError2DOnly(ish, dsh) ==
    IF dsh = NoArray
    THEN IF ish = NoArray THEN "ValueError: no input"
         ELSE IF Len(ish) # 2 THEN "ValueError: items not 2D"
         ELSE IF ish[2] < 1 THEN "ValueError: points shape"
         ELSE NoError
    ELSE IF Len(dsh) # 2 THEN "ValueError: not square"
         ELSE NoError

\* Lines 41-54 (and distances.py 32-33, with distance_fn=None): the ValueError
\* raised for the arrays of these shapes, if any. A supplied matrix is used
\* whatever items is; without one the matrix is built from items.
ShapeError(ish, dsh) ==
    IF dsh = NoArray
    THEN IF ish = NoArray THEN "ValueError: no input"
         ELSE IF Len(ish) # 2 THEN "ValueError: items not 2D"
         ELSE IF ish[2] < 1 THEN "ValueError: points shape"
         ELSE NoError
    ELSE IF Len(dsh) # 2 \/ dsh[1] # dsh[2] THEN "ValueError: not square"
         ELSE NoError

\* Lines 41-56: D.shape[0] of the matrix that passed the checks.
ShapeN(ish, dsh) == IF dsh = NoArray THEN ish[1] ELSE dsh[1]

\* Lines 37-56: the matrix is taken or built and checked, and n is set.
SolvePrepare ==
    /\ pc = "solve_entry"
    /\ IF ShapeError(items_shape, dm_shape) # NoError
       THEN /\ error' = ShapeError(items_shape, dm_shape)
            /\ pc' = "raised"
            /\ UNCHANGED solve_n
       ELSE /\ solve_n' = ShapeN(items_shape, dm_shape)
            /\ pc' = "solve_call"
            /\ UNCHANGED error
    /\ UNCHANGED <<caller, workerVars, validateVars, clockVars, D, solveArgs, nnArgs, nnVars, toArgs,
                   toVars, toRet, start_idx, best_route, best_open_len,
                   best_closed_len, result, histVars>>

\* Lines 57-62 and the dispatch on method (lines 71, 96, 135-136): the start
\* index is resolved; an unknown method raises ValueError, a known one calls
\* nearest_neighbor(start_idx, D).
SolveBegin ==
    /\ pc = "solve_call"
    /\ start_idx' = ResolveStart(start_param, solve_n)
    /\ IF method \in {"nn", "nn+2opt"}
       THEN /\ nn_start' = start_idx'
            /\ pc' = "nn_call"
            /\ UNCHANGED error
       ELSE /\ error' = "ValueError: unknown method"
            /\ pc' = "raised"
            /\ UNCHANGED nn_start
    /\ UNCHANGED <<caller, workerVars, validateVars, solve_n, clockVars, D, solveArgs, nnVars, toArgs, toVars, toRet,
                   best_route, best_open_len, best_closed_len, result,
                   histVars>>

\* Lines 78-91 (method nn) and 102-123 (method nn+2opt), after
\* nearest_neighbor returned: an empty route raises RuntimeError; otherwise
\* the lengths are computed and the sink, if any, is called outside any try,
\* so its exception leaves solve_tsp. Method nn then returns its result;
\* method nn+2opt calls two_opt with the remaining time and max_iters.
SolveAfterNN ==
    /\ pc = "nn_ret" /\ caller = "solve"
    /\ IF Len(route) = 0
       THEN /\ error' = "RuntimeError"
            /\ pc' = "raised"
            /\ UNCHANGED <<toArgs, best_route, best_open_len, best_closed_len,
                           result, emitted>>
       ELSE LET open_len == route_length(route, D, FALSE)
                closed_len == open_len + D[Last(route)][route[1]]
            IN /\ best_route' = route
               /\ best_open_len' = open_len
               /\ best_closed_len' = closed_len
               /\ emitted' = IF sink = NoSink THEN emitted
                             ELSE Append(emitted,
                                         InitialRecord(route, open_len, closed_len))
               /\ \E raised \in (IF sink = "callable" THEN BOOLEAN ELSE {FALSE}) :
                    IF raised
                    THEN /\ error' = "SinkError"
                         /\ pc' = "raised"
                         /\ UNCHANGED <<toArgs, result>>
                    ELSE IF method = "nn"
                    THEN /\ result' = SolveResult(route, open_len, closed_len)
                         /\ pc' = "returned"
                         /\ UNCHANGED <<toArgs, error>>
                    ELSE /\ \E elapsed \in 0 .. MaxClock :
                              tl' = IF time_limit = None THEN None
                                    ELSE IF time_limit - elapsed > 0
                                         THEN time_limit - elapsed ELSE 0
                         /\ max_iters' = IF max_iters_param = None
                                         THEN DefaultMaxIters ELSE max_iters_param
                         /\ to_route' = route
                         /\ pc' = "to_call"
                         /\ UNCHANGED <<result, error>>
    /\ UNCHANGED <<caller, workerVars, validateVars, solve_n, clockVars, D, solveArgs, nnArgs, nnVars, toVars, toRet,
                   start_idx, applied, iter_moves, eval_after_accept>>

\* Lines 127-157, after two_opt returned: its route replaces the constructed
\* one when the length it returned is below the constructed open length, and
\* the result is assembled.
SolveAfterTwoOpt ==
    /\ pc = "to_ret" /\ caller = "solve"
    /\ LET new_route == ret_route
           new_open_len == ret_len
           replace == /\ Len(new_route) > 0
                      /\ new_open_len < best_open_len
           new_closed_len == new_open_len + D[Last(new_route)][new_route[1]]
       IN /\ best_route' = IF replace THEN new_route ELSE best_route
          /\ best_open_len' = IF replace THEN new_open_len ELSE best_open_len
          /\ best_closed_len' = IF replace THEN new_closed_len ELSE best_closed_len
    /\ result' = SolveResult(best_route', best_open_len', best_closed_len')
    /\ pc' = "returned"
    /\ UNCHANGED <<caller, workerVars, validateVars, solve_n, clockVars, error, D, solveArgs, nnArgs, nnVars, toArgs, toVars,
                   toRet, start_idx, histVars>>

\* --------------------------------------------- utils.py: validate_route_indices
\* set(route)
SetOf(r) == {r[p] : p \in 1 .. Len(r)}

\* min(route) and max(route) of a route that is not empty.
SeqMin(r) == CHOOSE v \in SetOf(r) : \A w \in SetOf(r) : v <= w
SeqMax(r) == CHOOSE v \in SetOf(r) : \A w \in SetOf(r) : v >= w

\* Lines 19-26: the value returned, "True" or "False", or the exception
\* raised: min() and max() raise ValueError on an empty sequence.
validate_route_indices(r, k) ==
    IF Len(r) # k THEN "False"
    ELSE IF Cardinality(SetOf(r)) # k THEN "False"
    ELSE IF Len(r) = 0 THEN "ValueError"
    ELSE IF SeqMin(r) < 0 \/ SeqMax(r) >= k THEN "False"
    ELSE "True"

\* A call validate_route_indices(vr_route, vr_n).
ValidateRoute ==
    /\ pc = "vr_call"
    /\ vr_out' = validate_route_indices(vr_route, vr_n)
    /\ pc' = "vr_ret"
    /\ UNCHANGED <<caller, workerVars, solve_n, clockVars, error, D, solveArgs, nnArgs,
                   nnVars, toArgs, toVars, toRet, solveVars, histVars,
                   vr_route, vr_n>>

\* ------------------------------------------------------ worker.py: SolverWorker
\* A variant of request_stop that ends the run as a failure.
RequestStopAborting ==
    /\ stop_requested' = TRUE
    /\ pc' = IF pc = "run_ret" THEN pc ELSE "raised"
    /\ error' = IF pc = "run_ret" THEN error ELSE "StopRequested"
    /\ UNCHANGED <<caller, solve_n, clockVars, validateVars, D, solveArgs,
                   nnArgs, nnVars, toArgs, toVars, toRet, solveVars, histVars,
                   done_signals>>

\* Lines 21-24: request_stop, called from the GUI thread at any time in the
\* life of the worker; it sets the flag and nothing else.
RequestStop ==
    /\ stop_requested' = TRUE
    /\ UNCHANGED <<pc, error, caller, solve_n, clockVars, validateVars, D,
                   solveArgs, nnArgs, nnVars, toArgs, toVars, toRet, solveVars,
                   histVars, done_signals>>

\* Lines 26-37: run calls solve_tsp with the callback cb, which emits the
\* progress signal.
WorkerRun ==
    /\ pc = "run_call"
    /\ pc' = "solve_entry"
    /\ UNCHANGED <<caller, workerVars, solve_n, clockVars, validateVars, error,
                   D, solveArgs, nnArgs, nnVars, toArgs, toVars, toRet,
                   solveVars, histVars>>

\* The finished or error signal, with the number of progress signals emitted
\* before it.
DoneSignal(name) == [signal |-> name, after_progress |-> Len(emitted)]

\* Line 38: solve_tsp returned, self.finished.emit(res).
WorkerFinished ==
    /\ pc = "returned"
    /\ done_signals' = Append(done_signals, DoneSignal("finished"))
    /\ pc' = "run_ret"
    /\ UNCHANGED <<caller, stop_requested, solve_n, clockVars, validateVars,
                   error, D, solveArgs, nnArgs, nnVars, toArgs, toVars, toRet,
                   solveVars, histVars>>

\* Lines 39-40: an exception left solve_tsp, self.error.emit(str(e)).
WorkerError ==
    /\ pc = "raised"
    /\ done_signals' = Append(done_signals, DoneSignal("error"))
    /\ pc' = "run_ret"
    /\ UNCHANGED <<caller, stop_requested, solve_n, clockVars, validateVars,
                   error, D, solveArgs, nnArgs, nnVars, toArgs, toVars, toRet,
                   solveVars, histVars>>

\* ------------------------------------------------------------ specifications
NoSolveArgs ==
    /\ method = NoMethod /\ start_param = None /\ max_iters_param = None
    /\ time_limit = None /\ sink = NoSink
    /\ items_shape = NoArray /\ dm_shape = NoArray

NoNN == nn_start = None /\ route = <<>> /\ visited = {} /\ current = None

NoTwoOptArgs == to_route = <<>> /\ max_iters = None /\ tl = None

NoTwoOpt ==
    /\ best = <<>> /\ best_len = 0 /\ improved = FALSE /\ iters = 0 /\ i = 0
    /\ ret_route = <<>> /\ ret_len = None

NoSolve ==
    /\ solve_n = None /\ start_idx = None
    /\ best_route = NoRoute /\ best_open_len = Inf /\ best_closed_len = Inf
    /\ result = NoResult

NoHistory ==
    /\ emitted = <<>> /\ applied = <<>>
    /\ iter_moves = 0 /\ eval_after_accept = FALSE
    /\ first_check = None /\ time_checks = 0 /\ expired = FALSE

NoWorker == stop_requested = FALSE /\ done_signals = <<>>

NoValidate == vr_route = <<>> /\ vr_n = None /\ vr_out = NoOutcome

\* A direct call nearest_neighbor(start_idx, D).
InitNN ==
    /\ pc = "nn_call" /\ caller = "direct" /\ error = NoError
    /\ D \in AllMatrices
    /\ nn_start \in -1 .. Size(D)
    /\ route = <<>> /\ visited = {} /\ current = None
    /\ NoSolveArgs /\ NoTwoOptArgs /\ NoTwoOpt /\ NoSolve /\ NoHistory /\ NoValidate /\ NoWorker

NextNN == NNEnter \/ NNStep

SpecNN == InitNN /\ [][NextNN]_vars

\* The optional time_limit arguments: None, or 0 ticks. The clock reads
\* 0 .. MaxClock, so a limit of 0 shows both outcomes of the test of line 87.
TimeLimits == {None, 0}

\* The progress_callback arguments: None, or a callable that may raise. (The
\* callback of SolverWorker, "emit", emits a signal and does not raise.)
Sinks == {NoSink, "callable"}

\* A direct call two_opt(route, D, max_iters, time_limit=tl,
\* progress_callback=sink) on a route that is a permutation, with a callback
\* so that every accepted move leaves its record.
InitTwoOpt ==
    /\ pc = "to_call" /\ caller = "direct" /\ error = NoError
    /\ D \in AllMatrices
    /\ to_route \in Permutations(Size(D))
    /\ max_iters \in 1 .. MaxIters
    /\ tl \in TimeLimits
    /\ sink = "callable"
    /\ method = NoMethod /\ start_param = None /\ max_iters_param = None
    /\ time_limit = None
    /\ items_shape = NoArray /\ dm_shape = NoArray
    /\ NoNN /\ NoTwoOpt /\ NoSolve /\ NoHistory /\ NoValidate /\ NoWorker

NextTwoOpt == TwoOptEnter \/ TwoOptWhile \/ TwoOptFor

SpecTwoOpt == InitTwoOpt /\ [][NextTwoOpt]_vars

\* The methods of solve_tsp.
Methods == {"nn", "nn+2opt"}

\* The locals of solve_tsp at line 57: n is set, nothing else is assigned.
SolveLocals(size) ==
    /\ solve_n = size /\ start_idx = None
    /\ best_route = NoRoute /\ best_open_len = Inf /\ best_closed_len = Inf
    /\ result = NoResult

\* A call solve_tsp(distance_matrix=D, method=method,
\* params={'start_idx': start_param, 'max_iters': max_iters_param},
\* time_limit=time_limit, progress_callback=sink) with a square matrix, taken
\* at line 57, after the checks of the matrix; a parameter that is None is
\* absent from params.
InitSolve ==
    /\ pc = "solve_call" /\ caller = "solve" /\ error = NoError
    /\ D \in AllMatrices
    /\ items_shape = NoArray /\ dm_shape = <<Size(D), Size(D)>>
    /\ method \in Methods
    /\ start_param \in {None} \cup (-1 .. Size(D))
    /\ max_iters_param \in {None} \cup (1 .. MaxIters)
    /\ time_limit \in TimeLimits
    /\ sink \in Sinks
    /\ NoNN /\ NoTwoOptArgs /\ NoTwoOpt /\ SolveLocals(Size(D)) /\ NoHistory /\ NoValidate /\ NoWorker

NextSolve ==
    \/ SolveBegin
    \/ NNEnter
    \/ NNStep
    \/ SolveAfterNN
    \/ TwoOptEnter
    \/ TwoOptWhile
    \/ TwoOptFor
    \/ SolveAfterTwoOpt

SpecSolve == InitSolve /\ [][NextSolve]_vars

\* The integer sequences of length at most MaxN + 1 over -1 .. MaxN.
Routes == UNION {[1 .. len -> -1 .. MaxN] : len \in 0 .. (MaxN + 1)}

\* A call validate_route_indices(route, n) with n >= 0.
InitValidate ==
    /\ pc = "vr_call" /\ caller = "direct" /\ error = NoError
    /\ D = <<>>
    /\ vr_route \in Routes /\ vr_n \in 0 .. MaxN /\ vr_out = NoOutcome
    /\ NoSolveArgs /\ NoNN /\ NoTwoOptArgs /\ NoTwoOpt /\ NoSolve
    /\ emitted = <<>> /\ applied = <<>>
    /\ iter_moves = 0 /\ eval_after_accept = FALSE
    /\ first_check = None /\ time_checks = 0 /\ expired = FALSE
    /\ NoWorker

NextValidate == ValidateRoute

SpecValidate == InitValidate /\ [][NextValidate]_vars

\* The numbers of rows and columns of the arrays passed to solve_tsp: the
\* small ones, and those around the default start index.
Sizes == (0 .. MaxN) \cup {DefaultStart, DefaultStart + 1}

\* The shapes of the items argument: absent, one-dimensional, or n points of
\* k coordinates.
ItemShapes ==
    {NoArray} \cup {<<a>> : a \in Sizes} \cup {<<a, k>> : a \in Sizes, k \in 0 .. 2}

\* The shapes of the distance_matrix argument: absent, one-dimensional, or
\* rectangular.
MatrixShapes ==
    {NoArray} \cup {<<a>> : a \in Sizes} \cup {<<a, b>> : a \in Sizes, b \in Sizes}

\* The method arguments: the two strategies and another name.
MethodNames == Methods \cup {"2opt"}

\* A call solve_tsp(items, None, distance_matrix, method,
\* {'start_idx': start_param}, None, sink) from its first line up to the call
\* of nearest_neighbor. The arrays are held as their shapes: no entry of
\* the matrix is read before nearest_neighbor runs.
InitSolveArgs ==
    /\ pc = "solve_entry" /\ caller = "solve" /\ error = NoError
    /\ D = <<>>
    /\ items_shape \in ItemShapes
    /\ dm_shape \in MatrixShapes
    /\ method \in MethodNames
    /\ start_param \in {None} \cup (-1 .. MaxN) \cup {DefaultStart, DefaultStart + 1}
    /\ max_iters_param = None
    /\ time_limit = None
    /\ sink = "callable"
    /\ NoNN /\ NoTwoOptArgs /\ NoTwoOpt /\ NoSolve /\ NoHistory /\ NoValidate /\ NoWorker

NextSolveArgs == SolvePrepare \/ SolveBegin

SpecSolveArgs == InitSolveArgs /\ [][NextSolveArgs]_vars

\* A worker SolverWorker(distance_matrix=D, method=method,
\* params={'start_idx': start_param, 'max_iters': max_iters_param},
\* time_limit=time_limit) whose run is about to be called by its thread.
InitWorker ==
    /\ pc = "run_call" /\ caller = "solve" /\ error = NoError
    /\ D \in AllMatrices
    /\ items_shape = NoArray /\ dm_shape = <<Size(D), Size(D)>>
    /\ method \in MethodNames
    /\ start_param \in {None} \cup Nodes(Size(D))
    /\ max_iters_param \in {None} \cup (1 .. MaxIters)
    /\ time_limit \in TimeLimits
    /\ sink = "emit"
    /\ NoNN /\ NoTwoOptArgs /\ NoTwoOpt /\ NoSolve /\ NoHistory /\ NoValidate /\ NoWorker

\* The steps of run, in the worker's thread.
NextRun ==
    \/ WorkerRun
    \/ SolvePrepare
    \/ SolveBegin
    \/ NNEnter
    \/ NNStep
    \/ SolveAfterNN
    \/ TwoOptEnter
    \/ TwoOptWhile
    \/ TwoOptFor
    \/ SolveAfterTwoOpt
    \/ WorkerFinished
    \/ WorkerError

\* The steps of run interleaved with the stop requests of the GUI thread.
NextWorker == RequestStop \/ NextRun

SpecWorker == InitWorker /\ [][NextWorker]_vars

\* ----------------------------------------------------------------- claims
\* two_opt holds a working array.
InTwoOpt == pc \in {"to_while", "to_for"}

TwoOptReturned == pc = "to_ret"

\* C1: during two_opt on a route that is a permutation of 0..n-1, the open
\* route held by the optimizer (the working array without its closing
\* element) is a permutation of 0..n-1 at every step, and so are the open
\* route after every accepted reversal, the route of every progress record
\* and the returned route.
C1_PermutationKept ==
    LET n == Len(to_route) IN
    /\ InTwoOpt => IsPermutation(OpenOf(best), n)
    /\ \A k \in 1 .. Len(applied) : IsPermutation(applied[k], n)
    /\ \A k \in 1 .. Len(emitted) : IsPermutation(emitted[k].route, n)
    /\ TwoOptReturned => IsPermutation(ret_route, n)

\* C1 witness: two_opt returned a reordered route after two accepted, recorded
\* reversals.
C1_Witness ==
    /\ TwoOptReturned
    /\ Len(applied) >= 2
    /\ Len(emitted) = Len(applied)
    /\ ret_route # to_route
    /\ applied[1] # applied[2]

\* C2 as stated: for a route of length >= 2 the open length of the route
\* two_opt returns is at most the open length of the input route.
C2_OpenLengthNotIncreased ==
    (TwoOptReturned /\ Len(to_route) >= 2) =>
        route_length(ret_route, D, FALSE) <= route_length(to_route, D, FALSE)

\* C2 amended: for a route of length >= 2 the closed length (with the return
\* edge) of the route two_opt returns is at most the closed length of the
\* input route.
C2_ClosedLengthNotIncreased ==
    (TwoOptReturned /\ Len(to_route) >= 2) =>
        route_length(ret_route, D, TRUE) <= route_length(to_route, D, TRUE)

\* C2 witness: two_opt returned a route whose closed length is smaller and
\* whose open length is larger than the input's.
C2_Witness ==
    /\ TwoOptReturned
    /\ Len(to_route) >= 2
    /\ route_length(ret_route, D, TRUE) < route_length(to_route, D, TRUE)
    /\ route_length(ret_route, D, FALSE) > route_length(to_route, D, FALSE)

\* C3 as stated: the second component two_opt returns is the open length of
\* the route it returns, on every exit path.
C3_ReturnsOpenLength ==
    TwoOptReturned => ret_len = route_length(ret_route, D, FALSE)

\* C4 as stated: within one outer iteration at most one move is accepted and
\* no pair is evaluated after it, so the accepted moves never outnumber the
\* outer iterations nor max_iters.
C4_OneMovePerIteration ==
    (InTwoOpt \/ TwoOptReturned) =>
        /\ iter_moves <= 1
        /\ ~eval_after_accept
        /\ Len(applied) <= iters
        /\ Len(applied) <= max_iters

\* nearest_neighbor returned.
NNReturned == pc = "nn_ret"

\* The nodes of the route before position p.
Seen(r, p) == {r[q] : q \in 1 .. (p - 1)}

\* C5: for every matrix and every start index nearest_neighbor returns a
\* permutation of 0..n-1 of length n whose first element is the start index
\* if it lies in [0, n) and 0 otherwise; and it is deterministic: at every
\* step of its loop exactly one node can be appended.
C5_NearestNeighborPermutation ==
    LET n == Size(D) IN
    /\ NNReturned =>
          /\ IsPermutation(route, n)
          /\ n > 0 => route[1] = (IF nn_start \in Nodes(n) THEN nn_start ELSE 0)
    /\ pc = "nn_loop" =>
          Cardinality(ArgMin(MaskedRow(D[current], visited))) = 1

\* C5 witness: nearest_neighbor returned a route over at least three nodes
\* that is not in index order, for a start index out of range.
C5_Witness ==
    /\ NNReturned
    /\ Size(D) >= 3
    /\ nn_start \notin Nodes(Size(D))
    /\ \E p \in 1 .. (Len(route) - 1) : route[p] > route[p + 1]

\* C6: every node nearest_neighbor appends is unvisited, no unvisited node is
\* nearer to the node before it, and among the unvisited nodes at that least
\* distance it has the lowest index.
C6_NearestUnvisitedLowestIndex ==
    (pc \in {"nn_loop", "nn_ret"}) =>
        \A p \in 2 .. Len(route) :
            LET cur == route[p - 1]
                nxt == route[p]
            IN /\ nxt \notin Seen(route, p)
               /\ \A k \in Nodes(Size(D)) \ Seen(route, p) :
                     \/ D[cur][nxt] < D[cur][k]
                     \/ D[cur][nxt] = D[cur][k] /\ nxt <= k

\* C6 witness: nearest_neighbor returned after a step at which two unvisited
\* nodes were at the least distance and a third one was farther.
C6_Witness ==
    /\ NNReturned
    /\ \E p \in 2 .. Len(route) :
          LET cur == route[p - 1]
              nxt == route[p]
              open == Nodes(Size(D)) \ Seen(route, p)
          IN /\ \E k \in open : k # nxt /\ D[cur][k] = D[cur][nxt]
             /\ \E k \in open : D[cur][k] > D[cur][nxt]

\* solve_tsp returned a result.
SolveReturned == pc = "returned"

\* C7 as stated: for method nn+2opt solve_tsp returns the optimizer's route
\* when its open length is strictly smaller than the open length of the
\* constructed route, and the constructed route otherwise.
C7_ShorterOpenRouteReturned ==
    (SolveReturned /\ method = "nn+2opt") =>
        IF route_length(ret_route, D, FALSE) < route_length(route, D, FALSE)
        THEN result.route = ret_route
        ELSE result.route = route

RECURSIVE SeqSum(_, _)
SeqSum(q, p) == IF p > Len(q) THEN 0 ELSE q[p] + SeqSum(q, p + 1)

\* C8 as stated: every result of solve_tsp describes its own route: lengths
\* holds the n-1 distances between consecutive nodes, best_open_length is
\* their sum and best_closed_length adds the return edge.
C8_ResultDescribesRoute ==
    SolveReturned =>
        LET r == result.route IN
        /\ Len(result.lengths) = Size(D) - 1
        /\ \A p \in 1 .. Len(result.lengths) :
              result.lengths[p] = D[r[p]][r[p + 1]]
        /\ result.meta.best_open_length = SeqSum(result.lengths, 1)
        /\ result.meta.best_closed_length =
              result.meta.best_open_length + D[Last(r)][r[1]]

\* C9 as stated: a sink that raises never aborts a solve: no call of solve_tsp
\* ends with the exception of its sink.
C9_SinkFailureIsolated == ~(pc = "raised" /\ error = "SinkError")

\* The constructed route has been reported.
Reported ==
    \/ pc \in {"to_call", "to_while", "to_for", "to_ret", "returned"}
    \/ pc = "raised" /\ error = "SinkError"

\* C10: in a solve with method nn+2opt and a sink, no record is emitted
\* before the constructed route is reported; from then on the records are
\* the record of the constructed route followed by one record per accepted
\* move, in the order of the moves, each with the route as it is right after
\* its move: the last record always carries the current route.
C10_ProgressRecords ==
    (caller = "solve" /\ method = "nn+2opt" /\ sink # NoSink) =>
        IF Reported
        THEN /\ Len(emitted) = 1 + Len(applied)
             /\ emitted[1].route = route
             /\ \A k \in 1 .. Len(applied) : emitted[k + 1].route = applied[k]
             /\ InTwoOpt => Last(emitted).route = OpenOf(best)
        ELSE emitted = <<>> /\ applied = <<>>

\* C10 witness: a solve with method nn+2opt and a sink returned after two
\* accepted moves, with three records.
C10_Witness ==
    /\ SolveReturned /\ method = "nn+2opt" /\ sink # NoSink
    /\ Len(applied) = 2
    /\ Len(emitted) = 3
    /\ emitted[3].route # emitted[2].route

\* C11 as stated: with time_limit = 0, for every input route of length >= 2
\* and whatever the clock reads at the first time check, two_opt applies no
\* move and returns the input route unchanged.
C11_ZeroBudgetNoMove ==
    (tl = 0 /\ Len(to_route) >= 2) =>
        /\ applied = <<>>
        /\ TwoOptReturned => ret_route = to_route

\* The number of values of i started so far: range(1, n_closed - 2) is
\* scanned whole in every outer iteration.
RowsStarted ==
    LET rows == IF Len(best) >= 3 THEN Len(best) - 3 ELSE 0 IN
    IF pc = "to_for" THEN (iters - 1) * rows + (i - 1)
    ELSE IF pc = "to_ret" /\ expired THEN (iters - 1) * rows + i
    ELSE iters * rows

\* C11 amended: with time_limit = 0, when the first time check reads a clock
\* that has advanced past start_time, two_opt applies no move and returns the
\* input route unchanged; with any time limit the clock is read exactly once
\* at the start of each value of i (and never without a limit), and once a
\* reading exceeds the limit two_opt has returned the route it held, with no
\* further move.
C11_TimeLimitPerRow ==
    (InTwoOpt \/ TwoOptReturned) =>
        /\ (tl = 0 /\ Len(to_route) >= 2 /\ first_check # None /\ first_check > 0) =>
              /\ applied = <<>>
              /\ TwoOptReturned
              /\ ret_route = to_route
        /\ time_checks = (IF tl = None THEN 0 ELSE RowsStarted)
        /\ expired =>
              /\ TwoOptReturned
              /\ ret_route = OpenOf(best)
              /\ applied # <<>> => ret_route = Last(applied)

\* C11 witness: two_opt with time_limit = 0 returned the input route after one
\* time check that found the clock advanced, although the first row held an
\* improving pair.
C11_Witness ==
    /\ TwoOptReturned
    /\ tl = 0
    /\ first_check > 0
    /\ expired
    /\ time_checks = 1
    /\ ret_route = to_route
    /\ FirstImproving(ClosedTour(to_route), 1, FALSE) # None

\* solve_tsp raised an exception.
SolveRaised == pc = "raised"

\* solve_tsp reached the call of nearest_neighbor.
ConstructorCalled == pc = "nn_call"

\* Neither items nor a distance matrix is supplied.
NoInput == items_shape = NoArray /\ dm_shape = NoArray

\* A matrix is supplied and it is not a square two-dimensional array.
NotSquare ==
    /\ dm_shape # NoArray
    /\ ~(Len(dm_shape) = 2 /\ dm_shape[1] = dm_shape[2])

\* The supplied items cannot be made into a matrix.
BadItems ==
    /\ dm_shape = NoArray /\ items_shape # NoArray
    /\ ~(Len(items_shape) = 2 /\ items_shape[2] >= 1)

\* The failures of C12 leave no trace of the constructor, the optimizer or
\* the sink.
NothingRun ==
    /\ nn_start = None /\ route = <<>> /\ visited = {}
    /\ to_route = <<>> /\ best = <<>> /\ applied = <<>>
    /\ emitted = <<>>
    /\ result = NoResult

\* The outcome of the checks of solve_tsp that the claim and its amended form
\* share: the invalid-input and unknown-method failures, with nothing run.
ArgumentFailures ==
    /\ NoInput => SolveRaised /\ error = "ValueError: no input"
    /\ NotSquare => SolveRaised /\ error = "ValueError: not square"
    /\ (~NoInput /\ ~NotSquare /\ ~BadItems /\ method \notin Methods) =>
          SolveRaised /\ error = "ValueError: unknown method"
    /\ SolveRaised => NothingRun /\ (NoInput \/ NotSquare \/ BadItems \/ method \notin Methods)

\* C12 as stated: solve_tsp fails with an invalid-input error when neither
\* items nor a matrix is supplied or the matrix is not square, and with an
\* unknown-method error for a method other than the two strategies, without
\* running the constructor, the optimizer or the sink; and an out-of-range or
\* absent start index is never an error: it resolves to 0.
C12_StartResolvesToZero ==
    (SolveRaised \/ ConstructorCalled) =>
        /\ ArgumentFailures
        /\ (ConstructorCalled
              /\ (start_param = None \/ start_param \notin Nodes(solve_n))) =>
                  start_idx = 0

\* C12 amended: the same failures; and a start index is never an error: one
\* out of [0, n) resolves to 0, and an absent one to 3753 when n > 3753 and to
\* 0 otherwise.
C12_ArgumentErrors ==
    (SolveRaised \/ ConstructorCalled) =>
        /\ ArgumentFailures
        /\ ConstructorCalled =>
              /\ start_idx \in Nodes(solve_n) \cup {0}
              /\ nn_start = start_idx
              /\ start_param \in Nodes(solve_n) => start_idx = start_param
              /\ (start_param # None /\ start_param \notin Nodes(solve_n)) =>
                    start_idx = 0
              /\ start_param = None =>
                    start_idx = (IF solve_n > DefaultStart THEN DefaultStart ELSE 0)

\* C12 witness: a call with items and a matrix that is not square, a known
\* method and no start index raised the invalid-input error before anything
\* ran.
C12_Witness ==
    /\ SolveRaised
    /\ error = "ValueError: not square"
    /\ NotSquare /\ Len(dm_shape) = 2
    /\ items_shape # NoArray
    /\ method \in Methods
    /\ start_param = None
    /\ NothingRun

\* C13 as stated: the sizes 0 and 1 are handled at every level without
\* failure. For n = 0 nearest_neighbor, two_opt and solve_tsp (both methods)
\* yield the empty route with length 0; for n = 1 they yield the
\* single-element route with open and closed length 0 and no lengths. The
\* calls of solve_tsp are taken without a sink, so that no failure of a sink
\* is counted.
C13_DegenerateSizes ==
    /\ (NNReturned /\ Size(D) = 0) => route = <<>>
    /\ (NNReturned /\ Size(D) = 1) => route = <<0>>
    /\ (TwoOptReturned /\ Len(to_route) <= 1) =>
          ret_route = to_route /\ ret_len = 0
    /\ (caller = "solve" /\ sink = NoSink /\ Size(D) <= 1) => ~SolveRaised
    /\ (SolveReturned /\ Size(D) <= 1) =>
          /\ result.route = (IF Size(D) = 0 THEN <<>> ELSE <<0>>)
          /\ result.lengths = <<>>
          /\ result.meta.best_open_length = 0
          /\ result.meta.best_closed_length = 0

\* validate_route_indices returned or raised.
Validated == pc = "vr_ret"

\* C14 as stated: for every n >= 0 and every integer sequence route,
\* validate_route_indices(route, n) never raises, and it returns True if and
\* only if route is an exact permutation of 0..n-1 (the empty route for
\* n = 0 included).
C14_ValidatesPermutations ==
    Validated =>
        vr_out = (IF IsPermutation(vr_route, vr_n) THEN "True" ELSE "False")

\* run has ended.
RunEnded == pc = "run_ret"

\* C15, in every state of a worker: the run emits no finished or error signal
\* before its end and exactly one at its end, after all of its progress
\* signals: finished if solve_tsp returned, error if it raised; solve_tsp
\* raises only its own errors; and the optimizer stops only for its own
\* reasons (time limit, max_iters, no move accepted), stop request or not.
C15_RunOutcome ==
    /\ ~RunEnded => done_signals = <<>>
    /\ RunEnded =>
          /\ Len(done_signals) = 1
          /\ done_signals[1].after_progress = Len(emitted)
          /\ done_signals[1].signal = (IF result.returned THEN "finished" ELSE "error")
          /\ result.returned <=> error = NoError
    /\ error \in {NoError, "ValueError: unknown method", "RuntimeError"}
    /\ (pc \in {"to_ret", "returned", "run_ret"} /\ Len(to_route) >= 2) =>
          (expired \/ ~improved \/ iters >= max_iters)

\* Everything but the stop flag.
runVars ==
    <<pc, caller, error, D, solveArgs, solve_n, nnArgs, nnVars, toArgs, toVars,
      toRet, solveVars, histVars, clockVars, validateVars, done_signals>>

\* C15: a stop request is advisory only. With request_stop called at any
\* point before, during or after run, every step of the worker either is a
\* step of run, which leaves the flag alone, or changes nothing but the flag:
\* seen without the flag, the run is a run without the request, with the same
\* progress signals and the same result. And every run ends by emitting
\* exactly one of finished or error, after all of its progress signals.
C15_StopIsAdvisory == []C15_RunOutcome /\ [][NextRun]_runVars

\* C15 witness: a run with a stop request ended with the finished signal
\* after three progress signals, its search having run to a local optimum.
C15_Witness ==
    /\ RunEnded
    /\ stop_requested
    /\ done_signals[1].signal = "finished"
    /\ Len(emitted) = 3
    /\ ~expired /\ ~improved

\* The closed length of the input route of two_opt.
InputClosedLength == route_length(to_route, D, TRUE)

\* C16: on a symmetric, zero-diagonal D the best_len that two_opt tracks
\* incrementally is the closed length of the route it holds, recomputed from
\* scratch: initially, after every accepted move (the closed length of every
\* record is that of its route) and on return; every accepted move lowers it
\* by more than improve_threshold; so the closed length of the output never
\* exceeds that of the input.
C16_TrackedClosedLength ==
    ((InTwoOpt \/ TwoOptReturned) /\ Len(to_route) >= 2) =>
        /\ best_len = route_length(OpenOf(best), D, TRUE)
        /\ Len(emitted) = Len(applied)
        /\ \A k \in 1 .. Len(emitted) :
              /\ emitted[k].route = applied[k]
              /\ emitted[k].length_closed = route_length(applied[k], D, TRUE)
              /\ emitted[k].length_closed <
                    (IF k = 1 THEN InputClosedLength
                     ELSE emitted[k - 1].length_closed) - ImproveThreshold
        /\ best_len <= InputClosedLength
        /\ TwoOptReturned => route_length(ret_route, D, TRUE) = best_len

\* C16 witness: two_opt returned after two accepted moves, each of which
\* lowered the tracked length.
C16_Witness ==
    /\ TwoOptReturned
    /\ Len(applied) = 2
    /\ emitted[1].length_closed < InputClosedLength
    /\ emitted[2].length_closed < emitted[1].length_closed
    /\ best_len = emitted[2].length_closed
    /\ best_len > 0

\* The number of values of i in one outer iteration of the running call.
RowsPerIteration == IF Len(best) >= 3 THEN Len(best) - 3 ELSE 0

\* The progress of a call of two_opt: the while tests and the values of i it
\* has gone through, and above them all its return.
Rank ==
    IF pc = "to_call" THEN 0
    ELSE IF pc = "to_while" THEN 1 + iters * (RowsPerIteration + 1)
    ELSE IF pc = "to_for" THEN 1 + (iters - 1) * (RowsPerIteration + 1) + i
    ELSE 2 + max_iters * (RowsPerIteration + 1)

\* The delta of the pair (pi, pj) on the open route r of length n, with the
\* edges (a, b) = (r[pi-1], r[pi]) and (c, d) = (r[pj], r[(pj+1) mod n]).
RouteDelta(r, pi, pj) ==
    LET a == At(r, pi - 1)
        b == At(r, pi)
        c == At(r, pj)
        d == At(r, (pj + 1) % Len(r))
    IN (D[a][c] + D[b][d]) - (D[a][b] + D[c][d])

\* No pair (pi, pj) with 1 <= pi < pj <= n-1 of the route improves it.
LocalOptimum(r) ==
    \A pi \in 1 .. (Len(r) - 1) : \A pj \in (pi + 1) .. (Len(r) - 1) :
        ~(RouteDelta(r, pi, pj) < -ImproveThreshold)

\* C17, in every state: the outer iterations never outnumber max_iters, and
\* when two_opt has returned, not on expiry of the time limit, after an outer
\* iteration that accepted no move, the returned route is a 2-opt local
\* optimum.
C17_BoundedAndOptimal ==
    /\ InTwoOpt => iters <= max_iters
    /\ pc \in {"to_call", "to_while", "to_for", "to_ret"} =>
          Rank <= 2 + max_iters * (RowsPerIteration + 1)
    /\ (TwoOptReturned /\ Len(to_route) >= 2 /\ ~expired /\ ~improved) =>
          /\ iters >= 1
          /\ LocalOptimum(ret_route)

\* C17: two_opt terminates for every input after at most max_iters outer
\* iterations: every step takes it further through at most max_iters scans
\* of bounded length, towards its return; and a return, not on expiry, after
\* an outer iteration without an accepted move yields a 2-opt local optimum.
C17_TerminatesAtLocalOptimum ==
    [](C17_BoundedAndOptimal) /\ [][Rank' > Rank]_vars

\* C17 witness: two_opt returned a local optimum, not on expiry, at the end of
\* its second outer iteration, after an accepted move in the first.
C17_Witness ==
    /\ TwoOptReturned
    /\ ~expired /\ ~improved
    /\ iters = 2
    /\ applied # <<>>
    /\ LocalOptimum(ret_route)
    /\ ~LocalOptimum(to_route)

\* The start index the claim expects: params['start_idx'], 3753 when absent,
\* if it lies in [0, n), and 0 otherwise.
ExpectedStart ==
    IF start_param \in Nodes(solve_n) THEN start_param
    ELSE IF start_param = None /\ DefaultStart \in Nodes(solve_n) THEN DefaultStart
    ELSE 0

\* C18: the first node of the tour is pinned. No accepted move of two_opt
\* changes position 0 of the route, so the working array, the route after
\* every accepted move, every reported route and the returned route start
\* with the first node of the input route; and for both methods the result
\* of solve_tsp has route[0] = meta.start_idx, the start index resolved from
\* params.
C18_FirstNodePinned ==
    /\ InTwoOpt => best[1] = to_route[1]
    /\ \A k \in 1 .. Len(applied) : applied[k][1] = to_route[1]
    /\ \A k \in 1 .. Len(emitted) : emitted[k].route[1] = route[1]
    /\ (TwoOptReturned /\ Len(to_route) >= 1) => ret_route[1] = to_route[1]
    /\ SolveReturned =>
          /\ result.route[1] = result.meta.start_idx
          /\ result.meta.start_idx = ExpectedStart

\* C18 witness: solve_tsp with method nn+2opt and an explicit start index
\* other than 0 returned the route of two_opt, reordered by an accepted move
\* and still starting at the start index.
C18_Witness ==
    /\ SolveReturned /\ method = "nn+2opt"
    /\ start_param \in Nodes(solve_n) /\ start_param > 0
    /\ Len(applied) >= 1
    /\ result.route = ret_route
    /\ result.route # route
    /\ result.route[1] = start_param

=============================================================================
